---- MODULE Spec2Model ----
(***************************************************************************)
(* PdfCombiner (src/pdfcombiner/app.py): the page list of the main window, *)
(* the handlers that add, remove, reorder and export pages, the reader     *)
(* cache used by export and the thumbnail renderer.                        *)
(*                                                                         *)
(* Qt, pypdf, pypdfium2 and PIL are modelled by what app.py relies on:     *)
(*   - a pypdf.PdfReader built from a path is a snapshot of the file's     *)
(*     content at construction; the constructor raises on a missing file   *)
(*     or on bytes that are no PDF; on a password-protected PDF it         *)
(*     succeeds and every later access to .pages raises;                   *)
(*   - an exception that leaves a Qt event handler ends the program        *)
(*     (PyQt6 aborts on an unhandled exception);                           *)
(*   - a pdfium document/page handle is open from its creation until       *)
(*     close() is called on it.                                            *)
(* Sequences are 1-based here: position i of the model is row i-1 of the   *)
(* list widget, and the order prefix of row i-1 is the number i.           *)
(***************************************************************************)
EXTENDS Integers, Sequences, FiniteSets, TLC

\* ------------------------------------------------------------------ bounds
MaxItems == 2      \* add_files is not offered when the list would grow beyond this

\* ------------------------------------------------------- program constants
READER_CACHE_SIZE == 32

SUPPORTED_IMAGE_EXTS == {".png", ".jpg", ".jpeg", ".bmp", ".tif", ".tiff", ".webp"}
PDF_EXTS == {".pdf"}

\* --------------------------------------------------------------- the paths
PdfA == "/in/a.PDF"
ImgC == "/in/c.png"
TxtD == "/in/d.txt"
Paths == {PdfA, ImgC, TxtD}

\* os.path.basename
Basename(p) ==
    CASE p = PdfA -> "a.PDF"
      [] p = ImgC -> "c.png"
      [] p = TxtD -> "d.txt"
      [] OTHER -> p

\* os.path.splitext(p)[1]
Splitext1(p) ==
    CASE p = PdfA -> ".PDF"
      [] p = ImgC -> ".png"
      [] p = TxtD -> ".txt"
      [] OTHER -> ""

\* str.lower on the strings that occur
Lower(s) ==
    CASE s = ".PDF" -> ".pdf"
      [] s = "/out/R.PDF" -> "/out/r.pdf"
      [] OTHER -> s

\* ------------------------------------------------------------ file content
\* t: "none" (no such file), "garbage" (bytes no PDF parser accepts), "enc" (a
\* password-protected PDF), "pdf" (a PDF of n pages), "img" (a raster image),
\* "text" (any other regular file). ver tells two contents of a file apart.
NoFile == [t |-> "none", ver |-> 0, n |-> 0]
Garbage == [t |-> "garbage", ver |-> 0, n |-> 0]
Encrypted == [t |-> "enc", ver |-> 3, n |-> 1]
Pdf(v, k) == [t |-> "pdf", ver |-> v, n |-> k]
Img(v) == [t |-> "img", ver |-> v, n |-> 0]
TextFile == [t |-> "text", ver |-> 0, n |-> 0]

\* the contents the environment may give each path
ContentsOf(p) ==
    CASE p = PdfA -> {Pdf(1, 2), Pdf(2, 1), Encrypted, Garbage}
      [] p = ImgC -> {Img(1), NoFile}
      [] OTHER -> {TextFile}

\* the files when the program starts
InitialFiles ==
    [p \in Paths |->
        CASE p = PdfA -> Pdf(1, 2)
          [] p = ImgC -> Img(1)
          [] OTHER -> TextFile]

\* os.path.isfile
IsFile(fs0, p) == fs0[p].t # "none"

\* ---------------------------------------------------------------- PageData
PageData(kind, path, index) == [kind |-> kind, path |-> path, page_index |-> index]
None == -1

\* PageData.label: the base name, and the 1-based page number for a PDF page
\* (page 0 stands for "no suffix")
Label(pd) ==
    IF pd.kind = "pdf" /\ pd.page_index # None
    THEN [base |-> Basename(pd.path), page |-> pd.page_index + 1]
    ELSE [base |-> Basename(pd.path), page |-> 0]

\* an item's text: order 0 is the bare label set by _add_page_item, order k
\* is the text "k. label" set by refresh_order_labels
BareText(pd) == [order |-> 0, label |-> Label(pd)]
OrderText(k, pd) == [order |-> k, label |-> Label(pd)]

\* ------------------------------------------------ functools.lru_cache
\* A cache is a sequence of [key, val], least recently used first.
LruHas(c, k) == \E i \in 1..Len(c) : c[i].key = k
LruIndex(c, k) == CHOOSE i \in 1..Len(c) : c[i].key = k
LruVal(c, k) == c[LruIndex(c, k)].val
LruWithout(c, k) == SelectSeq(c, LAMBDA e : e.key # k)
\* a hit makes the entry the most recently used one
LruTouch(c, k) == Append(LruWithout(c, k), [key |-> k, val |-> LruVal(c, k)])
\* a miss stores the result and evicts the least recently used entry when full
LruPut(c, k, v, maxsize) ==
    LET full == Append(c, [key |-> k, val |-> v])
    IN  IF Len(full) > maxsize THEN Tail(full) ELSE full

\* -------------------------------------------------------- pypdf.PdfReader
NoReader == [path |-> "", t |-> "none", ver |-> 0, n |-> 0]

\* PdfReader(path): the reader keeps what the file held when it was opened
PdfReaderOpen(fs0, path) ==
    CASE fs0[path].t \in {"pdf", "enc"} ->
           [ok |-> TRUE, err |-> "",
            reader |-> [path |-> path, t |-> fs0[path].t, ver |-> fs0[path].ver,
                        n |-> fs0[path].n]]
      [] fs0[path].t = "none" ->
           [ok |-> FALSE, err |-> "No such file or directory", reader |-> NoReader]
      [] OTHER ->
           [ok |-> FALSE, err |-> "invalid pdf header", reader |-> NoReader]

NoPage == [src |-> "none", path |-> "", ver |-> 0, index |-> 0]

\* reader.pages[index]
ReaderPage(reader, index) ==
    CASE reader.t # "pdf" ->
           [ok |-> FALSE, err |-> "File has not been decrypted", page |-> NoPage]
      [] index < 0 \/ index >= reader.n ->
           [ok |-> FALSE, err |-> "sequence index out of range", page |-> NoPage]
      [] OTHER ->
           [ok |-> TRUE, err |-> "",
            page |-> [src |-> "pdf", path |-> reader.path, ver |-> reader.ver,
                      index |-> index]]

\* len(reader.pages)
ReaderNumPages(reader) ==
    IF reader.t # "pdf"
    THEN [ok |-> FALSE, err |-> "File has not been decrypted", n |-> 0]
    ELSE [ok |-> TRUE, err |-> "", n |-> reader.n]

\* image_to_pdf_bytes(path) followed by PdfReader(BytesIO(..)).pages[0]: the
\* one page that holds the raster of the image
ImagePage(fs0, path) ==
    CASE fs0[path].t = "img" ->
           [ok |-> TRUE, err |-> "",
            page |-> [src |-> "raster", path |-> path, ver |-> fs0[path].ver, index |-> 0]]
      [] fs0[path].t = "none" ->
           [ok |-> FALSE, err |-> "No such file or directory", page |-> NoPage]
      [] OTHER ->
           [ok |-> FALSE, err |-> "cannot identify image file", page |-> NoPage]

\* ---------------------------------------------------------- get_thumbnail
\* What the rendering library does during one handler's get_thumbnail calls:
\* it works ("none"), or it fails at one step of the PDF branch. "cached"
\* stands for a call that the lru_cache answers, so that the body does not run.
ThumbFaults == {"none", "cached", "open", "page", "render", "convert"}

DocHandle(path) == [h |-> "doc", path |-> path, index |-> 0]
PageHandle(path, index) == [h |-> "page", path |-> path, index |-> index]

\* The body of get_thumbnail: the pixmap it returns and the pdfium handles it
\* opened and has not closed when it returns. fault is the step that fails.
ThumbnailBody(pd, fs0, fault) ==
    IF pd.kind = "img"
    THEN [pixmap |-> IF fs0[pd.path].t = "img" THEN "thumb" ELSE "broken", open |-> {}]
    ELSE
      LET idx == IF pd.page_index = None THEN 0 ELSE pd.page_index
          doc == DocHandle(pd.path)
          page == PageHandle(pd.path, idx)
      IN  CASE fs0[pd.path].t # "pdf" \/ fault = "open" ->
                 \* pdfium.PdfDocument(path) raises: nothing was opened
                 [pixmap |-> "broken", open |-> {}]
            [] idx >= fs0[pd.path].n \/ fault = "page" ->
                 \* pdf.get_page raises: the document stays open
                 [pixmap |-> "broken", open |-> {doc}]
            [] fault = "render" ->
                 \* get_size, render or to_pil raises before page.close()
                 [pixmap |-> "broken", open |-> {doc, page}]
            [] fault = "convert" ->
                 \* page.close() ran; the conversion raises before pdf.close()
                 [pixmap |-> "broken", open |-> {doc, page} \ {page}]
            [] OTHER ->
                 \* page.close() and pdf.close() both ran
                 [pixmap |-> "thumb", open |-> ({doc, page} \ {page}) \ {doc}]

\* get_thumbnail behind its lru_cache: the handles open after the call, given
\* those open before it
GetThumbnail(open, pd, fs0, fault) ==
    IF fault = "cached" THEN open ELSE open \cup ThumbnailBody(pd, fs0, fault).open

\* ------------------------------------------------------------ the page list
VARIABLES
    fs,            \* the files on disk: path -> content
    items,         \* self.list: the rows, each [data: PageData, text]
    status,        \* the status bar's message
    readerCache,   \* the lru_cache of MainWindow._get_reader
    handles,       \* pdfium handles opened by get_thumbnail and not closed
    refreshTimer,  \* a QTimer.singleShot(10, refresh_order_labels) is pending
    crashed,       \* an exception left an event handler
    ev             \* the handler that ran last: its input, the list and the
                   \* status it found, and what it issued

vars == <<fs, items, status, readerCache, handles, refreshTimer, crashed, ev>>

DataOf(its) == [i \in 1..Len(its) |-> its[i].data]

\* refresh_order_labels: every row's text becomes "{i + 1}. {label}"
RefreshShifted(its) ==
    [i \in 1..Len(its) |-> [its[i] EXCEPT !.text = OrderText(i - 1, its[i].data)]]
RefreshOrderLabels(its) ==
    [i \in 1..Len(its) |-> [its[i] EXCEPT !.text = OrderText(i, its[i].data)]]

\* the slots connected to rowsMoved, rowsRemoved and rowsInserted
RowsMoved(its) == RefreshOrderLabels(its)
RowsRemoved(its) == RefreshOrderLabels(its)
RowsInserted(its) == RefreshOrderLabels(its)

\* _add_page_item: the new row carries the bare label, addItem emits
\* rowsInserted, and the labels are refreshed once more
AddPageItem(its, pd) ==
    RefreshOrderLabels(RowsInserted(Append(its, [data |-> pd, text |-> BareText(pd)])))

Warning(path, err) ==
    [kind |-> "warning", title |-> "Error",
     body |-> <<"Failed to read PDF: ", Basename(path), err>>]

\* One state of an add_files call: s is [items, notices, open, crashed], open
\* being the pdfium handles that are open.
AddOnePage(s, pd, fs0, fault) ==
    [s EXCEPT !.open = GetThumbnail(s.open, pd, fs0, fault),
              !.items = AddPageItem(s.items, pd)]

RECURSIVE AddPdfPagesFrom(_, _, _, _, _, _)
\* the loop "for i in range(num_pages)" of _add_pdf, from page i on
AddPdfPagesFrom(s, path, i, n, fs0, fault) ==
    IF i >= n THEN s
    ELSE AddPdfPagesFrom(AddOnePage(s, PageData("pdf", path, i), fs0, fault),
                         path, i + 1, n, fs0, fault)
AddPdfPagesOneBased(s, path, n, fs0, fault) == AddPdfPagesFrom(s, path, 1, n + 1, fs0, fault)
AddPdfPages(s, path, n, fs0, fault) == AddPdfPagesFrom(s, path, 0, n, fs0, fault)

\* _add_pdf: only the constructor is inside the try block
AddPdf(s, path, fs0, fault) ==
    LET opened == PdfReaderOpen(fs0, path)
        count == ReaderNumPages(opened.reader)
    IN  CASE ~opened.ok -> [s EXCEPT !.notices = Append(@, Warning(path, opened.err))]
          [] ~count.ok -> [s EXCEPT !.crashed = TRUE]
          [] OTHER -> AddPdfPages(s, path, count.n, fs0, fault)

\* _add_image
AddImage(s, path, fs0, fault) == AddOnePage(s, PageData("img", path, None), fs0, fault)

\* the body of the loop of add_files for one path
AddOnePathRaising(s, p, fs0, fault) ==
    LET ext == Lower(Splitext1(p))
    IN  CASE ~IsFile(fs0, p) -> [s EXCEPT !.crashed = TRUE]
          [] ext \in PDF_EXTS -> AddPdf(s, p, fs0, fault)
          [] ext \in SUPPORTED_IMAGE_EXTS -> AddImage(s, p, fs0, fault)
          [] OTHER -> [s EXCEPT !.crashed = TRUE]
AddOnePath(s, p, fs0, fault) ==
    LET ext == Lower(Splitext1(p))
    IN  CASE ~IsFile(fs0, p) -> s
          [] ext \in PDF_EXTS -> AddPdf(s, p, fs0, fault)
          [] ext \in SUPPORTED_IMAGE_EXTS -> AddImage(s, p, fs0, fault)
          [] OTHER -> s

RECURSIVE AddFilesLoop(_, _, _, _, _)
\* "for p in paths" from the k-th path on; an exception ends the loop
AddFilesLoop(s, paths, k, fs0, fault) ==
    IF k > Len(paths) \/ s.crashed THEN s
    ELSE AddFilesLoop(AddOnePath(s, paths[k], fs0, fault), paths, k + 1, fs0, fault)

TotalPages(n) == [kind |-> "total", n |-> n, path |-> ""]
Saved(path) == [kind |-> "saved", n |-> 0, path |-> path]
Begin == [kind |-> "begin", n |-> 0, path |-> ""]

\* add_files: the loop, then refresh_order_labels and the status message
\* (neither runs when an exception left the loop)
AddFilesResult(its, open, st, paths, fs0, fault) ==
    LET s == AddFilesLoop([items |-> its, notices |-> <<>>, open |-> open,
                           crashed |-> FALSE], paths, 1, fs0, fault)
    IN  IF s.crashed
        THEN [items |-> s.items, notices |-> s.notices, open |-> s.open,
              crashed |-> TRUE, status |-> st]
        ELSE [items |-> RefreshOrderLabels(s.items), notices |-> s.notices,
              open |-> s.open, crashed |-> FALSE, status |-> TotalPages(Len(s.items))]

\* ------------------------------------------------------------------ export
\* _get_reader behind lru_cache(maxsize=32): a hit returns the cached reader
\* and opens nothing; a miss opens the file; an exception is not cached
GetReader(cache, path, fs0) ==
    IF LruHas(cache, path)
    THEN [ok |-> TRUE, err |-> "", reader |-> LruVal(cache, path),
          cache |-> LruTouch(cache, path), opened |-> {}]
    ELSE LET o == PdfReaderOpen(fs0, path)
         IN  [ok |-> o.ok, err |-> o.err, reader |-> o.reader,
              cache |-> IF o.ok THEN LruPut(cache, path, o.reader, READER_CACHE_SIZE)
                        ELSE cache,
              opened |-> {path}]

RECURSIVE WriteLoop(_, _, _, _, _, _)
\* the loop of _write_combined_pdf from row i on: w is the writer's pages,
\* opened the source files opened on disk so far
WriteLoop(i, its, cache, w, opened, fs0) ==
    IF i > Len(its)
    THEN [err |-> "", cache |-> cache, pages |-> w, opened |-> opened, visited |-> i - 1]
    ELSE
      LET pd == its[i].data IN
      IF pd.kind = "pdf"
      THEN LET g == GetReader(cache, pd.path, fs0)
               pg == ReaderPage(g.reader, pd.page_index)
           IN  CASE ~g.ok ->
                      [err |-> g.err, cache |-> g.cache, pages |-> w,
                       opened |-> opened \cup g.opened, visited |-> i - 1]
                 [] ~pg.ok ->
                      [err |-> pg.err, cache |-> g.cache, pages |-> w,
                       opened |-> opened \cup g.opened, visited |-> i - 1]
                 [] OTHER ->
                      WriteLoop(i + 1, its, g.cache, Append(w, pg.page),
                                opened \cup g.opened, fs0)
      ELSE LET im == ImagePage(fs0, pd.path)
           IN  IF ~im.ok
               THEN [err |-> im.err, cache |-> cache, pages |-> w,
                     opened |-> opened \cup {pd.path}, visited |-> i - 1]
               ELSE WriteLoop(i + 1, its, cache, Append(w, im.page),
                              opened \cup {pd.path}, fs0)

\* what becomes of open(out_path, "wb") and writer.write(f)
Disk == {"ok", "denied", "full"}
NoOutFile == [path |-> "", state |-> "absent", pages |-> <<>>]

\* _write_combined_pdf: the loop, then the output file. loopErr is the error
\* raised in the loop, err the error that left the function.
WriteCombinedPdf(its, cache, out, disk, fs0) ==
    LET r == WriteLoop(1, its, cache, <<>>, {}, fs0)
        x == [ran |-> TRUE, loopErr |-> r.err, copied |-> r.pages, opened |-> r.opened,
              visited |-> r.visited, err |-> r.err, wrote |-> FALSE,
              outFile |-> NoOutFile, cache |-> r.cache]
    IN  CASE r.err # "" -> x
          [] disk = "denied" -> [x EXCEPT !.err = "Permission denied"]
          [] disk = "full" ->
               [x EXCEPT !.err = "No space left on device", !.wrote = TRUE,
                         !.outFile = [path |-> out, state |-> "partial", pages |-> <<>>]]
          [] OTHER ->
               [x EXCEPT !.wrote = TRUE,
                         !.outFile = [path |-> out, state |-> "complete", pages |-> r.pages]]

\* the answers of the save dialog: "" is a cancelled dialog
OutChoices == {"", "/out/r", "/out/R.PDF"}
\* out_path.lower().endswith(".pdf") and out_path += ".pdf"
EndsWithPdf(s) == s = "/out/r.pdf"
OutPath(choice) == IF EndsWithPdf(Lower(choice)) THEN choice ELSE "/out/r.pdf"

NothingToDo == [kind |-> "information", title |-> "Nothing to do",
                body |-> <<"Add some pages first.", "", "">>]
Failed(err) == [kind |-> "critical", title |-> "Error",
                body |-> <<"Failed to write PDF:", err, "">>]
Done(path) == [kind |-> "information", title |-> "Done",
               body |-> <<"Combined PDF saved to:", path, "">>]

NoExport == [ran |-> FALSE, loopErr |-> "", copied |-> <<>>, opened |-> {}, visited |-> 0,
             err |-> "", wrote |-> FALSE, outFile |-> NoOutFile]
ExportOf(w) == [ran |-> TRUE, loopErr |-> w.loopErr, copied |-> w.copied,
                opened |-> w.opened, visited |-> w.visited, err |-> w.err,
                wrote |-> w.wrote, outFile |-> w.outFile]

\* the rest of on_combine once the list is known not to be empty
OnCombineExport(its, cache, st, choice, disk, fs0) ==
    LET w == WriteCombinedPdf(its, cache, OutPath(choice), disk, fs0)
    IN  CASE choice = "" ->
               [notices |-> <<>>, status |-> st, cache |-> cache, export |-> NoExport]
          [] w.err # "" ->
               [notices |-> <<Failed(w.err)>>, status |-> st, cache |-> w.cache,
                export |-> ExportOf(w)]
          [] OTHER ->
               [notices |-> <<Done(OutPath(choice))>>, status |-> Saved(OutPath(choice)),
                cache |-> w.cache, export |-> ExportOf(w)]

\* on_combine without the return after the error dialog
OnCombineNoReturn(its, cache, st, choice, disk, fs0) ==
    LET r == OnCombineExport(its, cache, st, choice, disk, fs0)
    IN  IF Len(its) = 0
        THEN [notices |-> <<NothingToDo>>, status |-> st, cache |-> cache,
              export |-> NoExport]
        ELSE IF r.export.err # ""
             THEN [r EXCEPT !.notices = Append(@, Done(OutPath(choice))),
                            !.status = Saved(OutPath(choice))]
             ELSE r
\* on_combine without the check for an empty list
OnCombineNoCheck(its, cache, st, choice, disk, fs0) ==
    OnCombineExport(its, cache, st, choice, disk, fs0)
\* on_combine: what the handler leaves behind
OnCombineResult(its, cache, st, choice, disk, fs0) ==
    IF Len(its) = 0
    THEN [notices |-> <<NothingToDo>>, status |-> st, cache |-> cache, export |-> NoExport]
    ELSE OnCombineExport(its, cache, st, choice, disk, fs0)

\* ----------------------------------------------------------------- actions
\* before and status0 are the list's data and the status message the handler
\* found (kept for add_files and on_combine)
Event(op, paths, before, status0, notices, export) ==
    [op |-> op, paths |-> paths, before |-> before, status0 |-> status0,
     notices |-> notices, export |-> export]
Plain(op) == Event(op, <<>>, <<>>, Begin, <<>>, NoExport)

\* the path lists handed to add_files: a selection of files, in any order
PathLists ==
    {l \in UNION {[1..k -> Paths] : k \in 0..Cardinality(Paths)} :
        \A i, j \in 1..Len(l) : i # j => l[i] # l[j]}

Init ==
    /\ fs = InitialFiles
    /\ items = <<>>
    /\ status = Begin
    /\ readerCache = <<>>
    /\ handles = {}
    /\ refreshTimer = FALSE
    /\ crashed = FALSE
    /\ ev = Plain("init")

\* the environment replaces, creates or deletes a source file
ChangeFile(p, c) ==
    /\ ~crashed
    /\ c # fs[p]
    /\ fs' = [fs EXCEPT ![p] = c]
    /\ ev' = Plain("file")
    /\ UNCHANGED <<items, status, readerCache, handles, refreshTimer, crashed>>

\* add_files(paths), called by on_add_files and by dropEvent for dropped URLs
AddFiles(paths, fault) ==
    /\ ~crashed
    /\ \E r \in {AddFilesResult(items, handles, status, paths, fs, fault)} :
        /\ Len(r.items) <= MaxItems
        /\ items' = r.items
        /\ handles' = r.open
        /\ status' = r.status
        /\ crashed' = r.crashed
        /\ ev' = Event("add", paths, DataOf(items), status, r.notices, NoExport)
    /\ UNCHANGED <<fs, readerCache, refreshTimer>>

\* QListWidget.takeItem(row)
TakeItem(its, row) == [i \in 1..(Len(its) - 1) |-> IF i < row THEN its[i] ELSE its[i + 1]]

\* keyPressEvent for Delete or Backspace on the current item
KeyDelete(row) ==
    /\ ~crashed
    /\ items' = RefreshOrderLabels(RowsRemoved(TakeItem(items, row)))
    /\ status' = TotalPages(Len(items) - 1)
    /\ ev' = Plain("remove")
    /\ UNCHANGED <<fs, readerCache, handles, refreshTimer, crashed>>

\* keyPressEvent for Delete or Backspace when there is no current item
KeyDeleteNothing ==
    /\ ~crashed
    /\ ev' = Plain("key")
    /\ UNCHANGED <<fs, items, status, readerCache, handles, refreshTimer, crashed>>

\* the row move done by QListWidget.dropEvent: row from lands at row to
MoveRow(its, from, to) ==
    LET rest == TakeItem(its, from)
    IN  [i \in 1..Len(its) |->
            IF i < to THEN rest[i] ELSE IF i = to THEN its[from] ELSE rest[i - 1]]

\* dropEvent for an internal drag: Qt moves the row (rowsMoved is emitted),
\* then a single-shot timer is armed for refresh_order_labels
DropInternal(from, to) ==
    /\ ~crashed
    /\ from # to
    /\ items' = RowsMoved(MoveRow(items, from, to))
    /\ refreshTimer' = TRUE
    /\ ev' = Plain("drop")
    /\ UNCHANGED <<fs, status, readerCache, handles, crashed>>

\* the single-shot timer fires
TimerRefresh ==
    /\ ~crashed
    /\ refreshTimer
    /\ items' = RefreshOrderLabels(items)
    /\ refreshTimer' = FALSE
    /\ ev' = Plain("timer")
    /\ UNCHANGED <<fs, status, readerCache, handles, crashed>>

\* on_combine, with the save dialog's answer and the fate of the output file
OnCombine(choice, disk) ==
    /\ ~crashed
    /\ \E r \in {OnCombineResult(items, readerCache, status, choice, disk, fs)} :
        /\ status' = r.status
        /\ readerCache' = r.cache
        /\ ev' = Event("combine", <<>>, DataOf(items), status, r.notices, r.export)
    /\ UNCHANGED <<fs, items, handles, refreshTimer, crashed>>

\* the program with a rendering library that does not fail
Next ==
    \/ \E p \in Paths : \E c \in ContentsOf(p) : ChangeFile(p, c)
    \/ \E paths \in PathLists : AddFiles(paths, "none")
    \/ \E row \in 1..Len(items) : KeyDelete(row)
    \/ KeyDeleteNothing
    \/ \E from \in 1..Len(items) : \E to \in 1..Len(items) : DropInternal(from, to)
    \/ TimerRefresh
    \/ \E choice \in OutChoices : \E disk \in Disk : OnCombine(choice, disk)

Spec == Init /\ [][Next]_vars

\* adding and removing pages with a rendering library that may fail
NextRender ==
    \/ \E p \in Paths : \E c \in ContentsOf(p) : ChangeFile(p, c)
    \/ \E paths \in PathLists : \E fault \in ThumbFaults : AddFiles(paths, fault)
    \/ \E row \in 1..Len(items) : KeyDelete(row)

SpecRender == Init /\ [][NextRender]_vars

\* ------------------------------------------------------------------ claims
\* What the claims speak of, read off the files as they are now.

\* the source of an entry can be read: the PDF opens and has the page, the
\* image decodes
SourceReadable(pd) ==
    IF pd.kind = "pdf"
    THEN fs[pd.path].t = "pdf" /\ pd.page_index < fs[pd.path].n
    ELSE fs[pd.path].t = "img"

\* the page an entry stands for
SourcePage(pd) ==
    IF pd.kind = "pdf"
    THEN [src |-> "pdf", path |-> pd.path, ver |-> fs[pd.path].ver, index |-> pd.page_index]
    ELSE [src |-> "raster", path |-> pd.path, ver |-> fs[pd.path].ver, index |-> 0]

\* what a reader opened now on the entry's file yields for the entry
FreshResult(pd) ==
    IF pd.kind = "pdf"
    THEN LET o == PdfReaderOpen(fs, pd.path)
         IN  IF o.ok THEN ReaderPage(o.reader, pd.page_index)
             ELSE [ok |-> FALSE, err |-> o.err, page |-> NoPage]
    ELSE ImagePage(fs, pd.path)

\* the first row at which an export that opens every file afresh fails
FirstFailure ==
    IF \E i \in 1..Len(items) : ~FreshResult(items[i].data).ok
    THEN CHOOSE i \in 1..Len(items) :
            /\ ~FreshResult(items[i].data).ok
            /\ \A j \in 1..(i - 1) : FreshResult(items[j].data).ok
    ELSE Len(items) + 1

\* a path that add_files is to skip
SkippedPath(p) ==
    \/ fs[p].t = "none"
    \/ Lower(Splitext1(p)) \notin (PDF_EXTS \cup SUPPORTED_IMAGE_EXTS)

\* a PDF file that cannot be opened or parsed
BadPdf(p) ==
    /\ fs[p].t \notin {"none", "pdf"}
    /\ Lower(Splitext1(p)) \in PDF_EXTS

\* the entries a path is to contribute
ExpectedEntries(p) ==
    CASE SkippedPath(p) -> <<>>
      [] Lower(Splitext1(p)) \in PDF_EXTS ->
           IF fs[p].t = "pdf"
           THEN [k \in 1..fs[p].n |-> PageData("pdf", p, k - 1)]
           ELSE <<>>
      [] OTHER -> <<PageData("img", p, None)>>

RECURSIVE ExpectedFrom(_, _)
ExpectedFrom(paths, k) ==
    IF k > Len(paths) THEN <<>>
    ELSE ExpectedEntries(paths[k]) \o ExpectedFrom(paths, k + 1)

CountPath(data, p) == Cardinality({i \in 1..Len(data) : data[i].path = p})

\* the list the last handler found, with its labels in order
ItemsBefore ==
    [i \in 1..Len(ev.before) |->
        [data |-> ev.before[i], text |-> OrderText(i, ev.before[i])]]

\* C1: after a successful export of a list whose sources are all readable,
\* the output document has one page per row, and its i-th page is the page
\* of the i-th row's source (the PDF's page at page_index, or the raster of
\* the image).
C1_ExportedPagesAreTheSources ==
    ( /\ ev.op = "combine"
      /\ ev.export.ran
      /\ ev.export.err = ""
      /\ \A i \in 1..Len(items) : SourceReadable(items[i].data) )
    => /\ ev.export.outFile.state = "complete"
       /\ Len(ev.export.outFile.pages) = Len(items)
       /\ \A i \in 1..Len(items) :
            ev.export.outFile.pages[i] = SourcePage(items[i].data)

\* C2: on_combine on an empty list issues the "Nothing to do" notice and
\* nothing else: no source file is opened, no output file is written, the
\* status message stays, and there is no success or error notice.
C2_EmptyExportRejected ==
    (ev.op = "combine" /\ Len(items) = 0)
    => /\ ev.notices = <<NothingToDo>>
       /\ ev.export.opened = {}
       /\ ~ev.export.wrote
       /\ ~ev.export.ran
       /\ ev.export.outFile = NoOutFile
       /\ status = ev.status0

C2_Witness ==
    /\ ev.op = "combine"
    /\ Len(items) = 0
    /\ readerCache # <<>>
    /\ ev.notices = <<NothingToDo>>

\* C3: an add_files call that is handed a readable PDF leaves the list it
\* found as a prefix and appends, for each path in order, the entries the
\* path stands for: for a PDF of N pages the entries (pdf, path, 0) ..
\* (pdf, path, N-1).
C3_PdfPagesAppendedInOrder ==
    ( /\ ev.op = "add"
      /\ ~crashed
      /\ \E j \in 1..Len(ev.paths) :
            fs[ev.paths[j]].t = "pdf" /\ ~SkippedPath(ev.paths[j]) )
    => DataOf(items) = ev.before \o ExpectedFrom(ev.paths, 1)

C3_Witness ==
    /\ ev.op = "add"
    /\ ~crashed
    /\ ev.before # <<>>
    /\ \E j \in 1..Len(ev.paths) : ev.paths[j] = PdfA
    /\ fs[PdfA].t = "pdf"
    /\ Len(items) = Len(ev.before) + fs[PdfA].n

\* C4: an add_files call whose list holds a PDF that cannot be opened or
\* parsed is not aborted: every such file gets a warning and no entry, and
\* every other file of the list contributes its entries.
C4_BadPdfOnlyWarns ==
    ( /\ ev.op = "add"
      /\ \E j \in 1..Len(ev.paths) : BadPdf(ev.paths[j]) )
    => LET bad == SelectSeq(ev.paths, BadPdf)
       IN  /\ ~crashed
           /\ DataOf(items) = ev.before \o ExpectedFrom(ev.paths, 1)
           /\ Len(ev.notices) = Len(bad)
           /\ \A i \in 1..Len(bad) :
                /\ ev.notices[i].kind = "warning"
                /\ ev.notices[i].body[2] = Basename(bad[i])
           /\ status = TotalPages(Len(items))

\* C5: an export that fails at any step shows the error notice with the
\* error text and neither the "Saved" status nor the "Done" notice; the
\* "Done" notice and the "Saved" status appear only when every row was
\* visited and the output file was written completely.
C5_FailedExportIsReported ==
    (ev.op = "combine" /\ ev.export.ran)
    => LET failed == \/ ev.export.visited < Len(items)
                     \/ ev.export.outFile.state # "complete"
                     \/ ev.export.err # ""
           done == \E i \in 1..Len(ev.notices) : ev.notices[i].title = "Done"
       IN  /\ failed => /\ ev.export.err # ""
                        /\ ev.notices = <<Failed(ev.export.err)>>
                        /\ status = ev.status0
           /\ (done \/ status # ev.status0) =>
                /\ ~failed
                /\ status.kind = "saved"
                /\ Len(ev.export.outFile.pages) = Len(items)

C5_Witness ==
    /\ ev.op = "combine"
    /\ ev.export.ran
    /\ ev.export.loopErr # ""
    /\ ev.export.visited >= 1
    /\ ev.status0.kind = "saved"

\* C6: the paths of an add_files call that name no file or carry an
\* unsupported extension leave no trace: the call ends as the call without
\* them would have ended (same entries, same notices, same status, the same
\* abort if any), no entry and no notice names such a path.
C6_SkippedPathsLeaveNoTrace ==
    (ev.op = "add")
    => LET kept == SelectSeq(ev.paths, LAMBDA p : ~SkippedPath(p))
           r == AddFilesResult(ItemsBefore, {}, ev.status0, kept, fs, "none")
       IN  /\ items = r.items
           /\ ev.notices = r.notices
           /\ crashed = r.crashed
           /\ status = r.status
           /\ \A j \in 1..Len(ev.paths) :
                SkippedPath(ev.paths[j]) =>
                  /\ CountPath(DataOf(items), ev.paths[j]) = CountPath(ev.before, ev.paths[j])
                  /\ \A i \in 1..Len(ev.notices) :
                       ev.notices[i].body[2] # Basename(ev.paths[j])
           /\ (\A j \in 1..Len(ev.paths) : SkippedPath(ev.paths[j])) =>
                /\ DataOf(items) = ev.before
                /\ ev.notices = <<>>
                /\ ~crashed

C6_Witness ==
    /\ ev.op = "add"
    /\ ev.paths = <<TxtD, ImgC, PdfA>>
    /\ fs[ImgC].t = "none"
    /\ fs[PdfA].t = "pdf"
    /\ Len(items) > Len(ev.before)
    /\ ev.notices = <<>>

\* C7: in every state between two handlers the row at position i shows the
\* order prefix i in front of the label of its own entry.
C7_LabelsCarryPosition ==
    \A i \in 1..Len(items) :
        /\ items[i].text.order = i
        /\ items[i].text.label.base = Basename(items[i].data.path)
        /\ items[i].text.label.page =
             IF items[i].data.kind = "pdf" THEN items[i].data.page_index + 1 ELSE 0

C7_Witness ==
    /\ ev.op = "drop"
    /\ Len(items) = 2
    /\ items[1].data = PageData("pdf", PdfA, 1)
    /\ items[2].data = PageData("pdf", PdfA, 0)
    /\ items[1].text.order = 1

\* C8: after an add, a removal or a reorder the status message reads
\* "Total pages: N" with N the length of the list.
C8_StatusReportsTotal ==
    (~crashed /\ ev.op \in {"add", "remove", "drop"})
    => status = TotalPages(Len(items))

\* C9: an export copies, and fails, as an export that opens every source
\* file afresh: it visits the rows up to the first one whose source fails
\* now, copies those rows' pages as they are now and raises that row's
\* error; and the reader cache holds at most 32 readers.
C9_CachedReaderIsFresh ==
    (ev.op = "combine" /\ ev.export.ran)
    => /\ ev.export.visited = FirstFailure - 1
       /\ ev.export.copied =
            [i \in 1..(FirstFailure - 1) |-> FreshResult(items[i].data).page]
       /\ ev.export.loopErr =
            IF FirstFailure <= Len(items)
            THEN FreshResult(items[FirstFailure].data).err
            ELSE ""
       /\ Len(readerCache) <= READER_CACHE_SIZE

\* C10: no pdfium document or page handle opened by get_thumbnail is open
\* once the call has returned.
C10_ThumbnailClosesHandles ==
    handles = {}

====
